---------------------------- MODULE Spec2Model ----------------------------
(***************************************************************************)
(* A model of sousveillance-server: the header / message wire-format       *)
(* parser (src/src/message), the Stream / Finder extract contract          *)
(* (src/src/stream.rs) and the Server dispatcher (src/src/server.rs).      *)
(*                                                                         *)
(* Byte buffers are sequences of naturals in 0..255.  TLC's integers are   *)
(* 32-bit signed, so the sampled byte values are chosen to keep every      *)
(* decoded u32 below 2^31; widths and the order of the checks are those of  *)
(* the code.                                                               *)
(***************************************************************************)
EXTENDS Integers, Sequences, FiniteSets, TLC

VARIABLES
    origin,         \* how the input buffer of the parser was built
    input,          \* the byte buffer handed to Header::parse / Message::parse
    headerResult,   \* what Header::parse(input) returned, once it has run
    messageResult,  \* what Message::parse(input) returned, once it has run
    server,         \* which Server implementation answers auth
    finder,         \* the routing table: HashMap<Vec<u8>, Stream>
    lastCall,       \* the last Finder.extract / Server.consume call and its outcome
    session,        \* the Session: its reader, its read buffer, its touched keys
    lastNext,       \* the last Session::next call and its outcome
    lastIds,        \* what the last ids_to_extract call returned
    ledger,         \* the streams provisioned at the start and those finalized since
    inflight        \* Finder.extract calls between their remove and their reinsert

codecVars == <<origin, input, headerResult, messageResult>>
serverVars == <<server, finder, lastCall>>
sessionVars == <<session, lastNext, lastIds>>
sharedVars == <<ledger, inflight>>
vars == <<origin, input, headerResult, messageResult, server, finder, lastCall,
          session, lastNext, lastIds, ledger, inflight>>

-----------------------------------------------------------------------------
(* Bounds of the model and the sampled values. *)

MaxLen == 2
MaxRaw == 4
MaxPushes == 2
MaxFrames == 2
MaxCalls == 4
MaxFailAt == 2

\* Byte values for raw buffers and for size fields.
ByteVals == {0, 1, 127}
\* Byte values for token / id bodies and payloads.
BodyVals == {1, 127}
\* Millisecond timestamps (u64 in the code).
Millis == {0, 1000, 2147483647}
\* Declared sizes that exceed every sampled body.
DeclSizes == {1, 2, 3, 256, 2139062143}

SeqsUpTo(S, n) == UNION {[1..k -> S] : k \in 0..n}
Bodies == SeqsUpTo(BodyVals, MaxLen)
Payloads == {<<>>, <<1>>, <<127, 1>>}

-----------------------------------------------------------------------------
(* Result values. *)

Ok(v) == [tag |-> "Ok", val |-> v]
Err(e) == [tag |-> "Err", err |-> e]
None == [tag |-> "None"]
Some(v) == [tag |-> "Some", val |-> v]
Panic == [tag |-> "Panic"]
NotRun == [tag |-> "NotRun"]
Unit == "()"

IsOk(r) == r.tag = "Ok"
IsErr(r) == r.tag = "Err"

-----------------------------------------------------------------------------
(* Byte-order helpers. *)

\* BigEndian::write_uN: the w low-order base-256 digits of n, most significant first.
RECURSIVE to_bytes(_, _)
to_bytes(n, w) ==
    IF w = 0 THEN <<>> ELSE Append(to_bytes(n \div 256, w - 1), n % 256)

SliceFromLE(b) == SubSeq(b, 2, Len(b))

\* A little-endian read in place of the big-endian one.
RECURSIVE read_le(_, _)
read_le(b, w) ==
    IF w = 0 THEN 0 ELSE read_le(SliceFromLE(b), w - 1) * 256 + b[1]

\* BigEndian::read_uN over the first w bytes of b.
RECURSIVE read_be(_, _)
read_be(b, w) ==
    IF w = 0 THEN 0 ELSE read_be(b, w - 1) * 256 + b[w]

\* `n as u32`: the low 32 bits of n, taken 16 bits at a time.
as_u32(n) == (n % 65536) + 65536 * ((n \div 65536) % 65536)

SliceFrom(b, n) == SubSeq(b, n + 1, Len(b))
SliceTo(b, n) == SubSeq(b, 1, n)

\* Duration::from_millis
Duration_from_millis(ms) ==
    [secs |-> ms \div 1000, nanos |-> (ms % 1000) * 1000000]

-----------------------------------------------------------------------------
(* src/src/message/header.rs *)

TokenSize == [tag |-> "TokenSize"]
Token(s) == [tag |-> "Token", size |-> s]
IdSize == [tag |-> "IdSize"]
Id(s) == [tag |-> "Id", size |-> s]
Timestamp == [tag |-> "Timestamp"]

\* The widths of the earlier protocol revision: 2-byte size fields.
Part_size_u16(part) ==
    CASE part.tag \in {"TokenSize", "IdSize"} -> 2
      [] part.tag \in {"Token", "Id"} -> part.size
      [] part.tag = "Timestamp" -> 8

Part_size(part) ==
    CASE part.tag \in {"TokenSize", "IdSize"} -> 4
      [] part.tag \in {"Token", "Id"} -> part.size
      [] part.tag = "Timestamp" -> 8

HeaderError(remaining, part) == [remaining |-> remaining, part |-> part]

\* `check` that tests the width but does not take it off `remaining`.
check_no_consume(remaining, part) ==
    IF remaining >= Part_size(part)
    THEN Ok(remaining)
    ELSE Err(HeaderError(remaining, part))

\* `check` reporting the deficit (bytes missing) in place of the bytes remaining.
check_deficit(remaining, part) ==
    IF remaining >= Part_size(part)
    THEN Ok(remaining - Part_size(part))
    ELSE Err(HeaderError(Part_size(part) - remaining, part))

\* The closure `check`: remaining.checked_sub(part.size()).ok_or(Error {..})
check(remaining, part) ==
    IF remaining >= Part_size(part)
    THEN Ok(remaining - Part_size(part))
    ELSE Err(HeaderError(remaining, part))

\* The header built with token and id exchanged.
Header_swapped(token, id, timestamp) ==
    [token |-> id, id |-> token, timestamp |-> timestamp]

Header(token, id, timestamp) ==
    [token |-> token, id |-> id, timestamp |-> timestamp]

\* Header::parse: Ok(<<header, rest>>), Err(HeaderError) or a slice-index panic.
Header_parse(bytes0) ==
    LET c1 == check(as_u32(Len(bytes0)), TokenSize) IN
    IF IsErr(c1) THEN c1
    ELSE IF Len(bytes0) < 4 THEN Panic
    ELSE
    LET token_size == read_be(bytes0, 4)
        bytes1 == SliceFrom(bytes0, 4)
        c2 == check(c1.val, Token(token_size)) IN
    IF IsErr(c2) THEN c2
    ELSE IF Len(bytes1) < token_size THEN Panic
    ELSE
    LET token == SliceTo(bytes1, token_size)
        bytes2 == SliceFrom(bytes1, token_size)
        c3 == check(c2.val, IdSize) IN
    IF IsErr(c3) THEN c3
    ELSE IF Len(bytes2) < 4 THEN Panic
    ELSE
    LET id_size == read_be(bytes2, 4)
        bytes3 == SliceFrom(bytes2, 4)
        c4 == check(c3.val, Id(id_size)) IN
    IF IsErr(c4) THEN c4
    ELSE IF Len(bytes3) < id_size THEN Panic
    ELSE
    LET id == SliceTo(bytes3, id_size)
        bytes4 == SliceFrom(bytes3, id_size)
        c5 == check(c4.val, Timestamp) IN
    IF IsErr(c5) THEN c5
    ELSE IF Len(bytes4) < 8 THEN Panic
    ELSE
    LET timestamp == Duration_from_millis(read_be(bytes4, 8))
        bytes5 == SliceFrom(bytes4, 8) IN
    Ok(<<Header(token, id, timestamp), bytes5>>)

-----------------------------------------------------------------------------
(* src/src/message/mod.rs *)

\* The payload decoders: the trivial one for &[u8] and one that always fails.
PayloadDecoders == {"Bytes", "Failing"}

Payload_parse(P, bytes) ==
    IF P = "Bytes" THEN Ok(bytes) ELSE Err(Unit)

Message(header, payload) == [header |-> header, payload |-> payload]

Error_HeaderError(e) == [tag |-> "HeaderError", err |-> e]
Error_PayloadError(e) == [tag |-> "PayloadError", err |-> e]

\* Message::parse decoding the payload before looking at the header's result.
Message_parse_eager(P, bytes) ==
    LET h == Header_parse(bytes)
        p == Payload_parse(P, bytes) IN
    IF h.tag = "Panic" THEN [result |-> Panic, decoded |-> <<>>]
    ELSE IF IsErr(p)
    THEN [result |-> Err(Error_PayloadError(p.err)), decoded |-> <<bytes>>]
    ELSE IF IsErr(h)
    THEN [result |-> Err(Error_HeaderError(h.err)), decoded |-> <<bytes>>]
    ELSE [result |-> Ok(Message(h.val[1], h.val[2])), decoded |-> <<bytes>>]

\* Message::parse with payload decoder P.  `decoded` lists the byte slices
\* the payload decoder was called with.
Message_parse(P, bytes) ==
    LET h == Header_parse(bytes) IN
    IF h.tag = "Panic" THEN [result |-> Panic, decoded |-> <<>>]
    ELSE IF IsErr(h)
    THEN [result |-> Err(Error_HeaderError(h.err)), decoded |-> <<>>]
    ELSE
    LET header == h.val[1]
        payload_bytes == h.val[2]
        p == Payload_parse(P, payload_bytes) IN
    [result |-> IF IsOk(p) THEN Ok(Message(header, p.val))
                ELSE Err(Error_PayloadError(p.err)),
     decoded |-> <<payload_bytes>>]

-----------------------------------------------------------------------------
(* The encoder the tests use to build a message body. *)

encode_header(token, id, millis) ==
    to_bytes(as_u32(Len(token)), 4) \o token
        \o to_bytes(as_u32(Len(id)), 4) \o id
        \o to_bytes(millis, 8)

encode(token, id, millis, payload) ==
    encode_header(token, id, millis) \o payload

-----------------------------------------------------------------------------
(* The parser's inputs. *)

\* Tails of up to 7 bytes that stop inside the timestamp field.
TsTails == UNION {[1..k -> {b}] : k \in 0..7, b \in ByteVals}

PacketInputs ==
    {[family |-> "packet", token |-> t, id |-> i, millis |-> m, payload |-> p,
      bytes |-> encode(t, i, m, p)] :
        t \in Bodies, i \in Bodies, m \in Millis, p \in Payloads}

PrefixInputs ==
    UNION {{[family |-> "prefix", token |-> t, id |-> i, millis |-> m, cut |-> c,
             bytes |-> SliceTo(encode_header(t, i, m), c)] :
               c \in 0..(Len(encode_header(t, i, m)) - 1)} :
        t \in Bodies, i \in Bodies, m \in Millis}

RawInputs ==
    {[family |-> "raw", bytes |-> b] : b \in SeqsUpTo(ByteVals, MaxRaw)}

PartialTokenInputs ==
    UNION {{[family |-> "partial_token", declared |-> L, body |-> b,
             bytes |-> to_bytes(L, 4) \o b] :
               b \in {x \in Bodies : Len(x) < L}} :
        L \in DeclSizes}

IdSizeCutInputs ==
    {[family |-> "id_size_cut", token |-> t, tail |-> x,
      bytes |-> to_bytes(Len(t), 4) \o t \o x] :
        t \in Bodies, x \in SeqsUpTo(ByteVals, 3)}

PartialIdInputs ==
    UNION {{[family |-> "partial_id", token |-> t, declared |-> L, body |-> b,
             bytes |-> to_bytes(Len(t), 4) \o t \o to_bytes(L, 4) \o b] :
               b \in {x \in Bodies : Len(x) < L}} :
        t \in Bodies, L \in DeclSizes}

TimestampCutInputs ==
    {[family |-> "timestamp_cut", token |-> t, id |-> i, tail |-> x,
      bytes |-> to_bytes(Len(t), 4) \o t \o to_bytes(Len(i), 4) \o i \o x] :
        t \in Bodies, i \in Bodies, x \in TsTails}

\* Buffers longer than a u32 can count: `bytes` followed by `blocks` times
\* 2^32 further bytes.  Their length as u32, the parser's counter, is
\* Len(bytes), so the parser never reaches past `bytes`.
LongInputs ==
    {[family |-> "long", blocks |-> 1, bytes |-> b] :
        b \in SeqsUpTo({0, 1}, 2) \cup {to_bytes(2, 4) \o <<1>>}}

Inputs ==
    PacketInputs \cup PrefixInputs \cup RawInputs \cup PartialTokenInputs
        \cup IdSizeCutInputs \cup PartialIdInputs \cup TimestampCutInputs
        \cup LongInputs

-----------------------------------------------------------------------------
(* The parser applied to an input. *)

SessionIdle ==
    /\ session = NotRun
    /\ lastNext = NotRun
    /\ lastIds = NotRun

SharedIdle ==
    /\ ledger = NotRun
    /\ inflight = NotRun

ServerIdle ==
    /\ server = "Ok"
    /\ finder = <<>>
    /\ lastCall = NotRun
    /\ SessionIdle
    /\ SharedIdle

InitCodec ==
    /\ origin \in Inputs
    /\ input = origin.bytes
    /\ headerResult = NotRun
    /\ messageResult = NotRun
    /\ ServerIdle

HeaderParse ==
    /\ headerResult = NotRun
    /\ headerResult' = Header_parse(input)
    /\ UNCHANGED <<origin, input, messageResult, serverVars, sessionVars, sharedVars>>

MessageParse(P) ==
    /\ messageResult = NotRun
    /\ messageResult' = [decoder |-> P] @@ Message_parse(P, input)
    /\ UNCHANGED <<origin, input, headerResult, serverVars, sessionVars, sharedVars>>

NextCodec ==
    \/ HeaderParse
    \/ \E P \in PayloadDecoders : MessageParse(P)

SpecCodec == InitCodec /\ [][NextCodec]_vars

-----------------------------------------------------------------------------
(* src/src/stream.rs *)

\* A stream: the mock it is (Ok or Broken), the key it was provisioned under
\* and the observations pushed onto it so far.
Stream(kind, sid) == [kind |-> kind, sid |-> sid, pushed |-> <<>>]

\* A push that every stream accepts.
Stream_push_always_ok(stream, timestamp, payload) ==
    [result |-> Ok(Unit),
     stream |-> [stream EXCEPT !.pushed = Append(@, <<timestamp, payload>>)]]

\* Stream::push: the outcome and the stream afterwards.
Stream_push(stream, timestamp, payload) ==
    IF stream.kind = "Ok"
    THEN [result |-> Ok(Unit),
          stream |-> [stream EXCEPT !.pushed = Append(@, <<timestamp, payload>>)]]
    ELSE [result |-> Err(Unit), stream |-> stream]

\* Stream::extract consumes the stream: Ok(finalized value), or
\* Err(<<the stream itself, error>>).
Stream_extract(stream) ==
    IF stream.kind = "Ok"
    THEN Ok([finalized |-> stream.sid, pushed |-> stream.pushed])
    ELSE Err(<<stream, Unit>>)

\* A lookup that hands out the value and leaves the entry in the map.
HashMap_remove_keep(map, key) ==
    [value |-> IF key \in DOMAIN map THEN Some(map[key]) ELSE None,
     map |-> map]

\* HashMap::remove, HashMap::insert, HashMap::get_mut
HashMap_remove(map, key) ==
    [value |-> IF key \in DOMAIN map THEN Some(map[key]) ELSE None,
     map |-> [k \in DOMAIN map \ {key} |-> map[k]]]

HashMap_insert(map, key, value) ==
    [k \in DOMAIN map \cup {key} |-> IF k = key THEN value ELSE map[k]]

HashMap_get_mut(map, key) ==
    IF key \in DOMAIN map THEN Some(map[key]) ELSE None

\* Finder::extract that drops the stream of a failed extract.
Finder_extract_no_reinsert(table, key) ==
    LET removed == HashMap_remove(table, key) IN
    IF removed.value = None
    THEN [result |-> None, finder |-> removed.map, extracted |-> <<>>]
    ELSE
    LET stream == removed.value.val
        r == Stream_extract(stream) IN
    [result |-> IF IsOk(r) THEN Some(Ok(r.val)) ELSE Some(Err(r.err[2])),
     finder |-> removed.map,
     extracted |-> <<stream>>]

\* Finder::extract that flattens a failed extract into None.
Finder_extract_flatten(table, key) ==
    LET removed == HashMap_remove(table, key) IN
    IF removed.value = None
    THEN [result |-> None, finder |-> removed.map, extracted |-> <<>>]
    ELSE
    LET stream == removed.value.val
        r == Stream_extract(stream) IN
    IF IsOk(r)
    THEN [result |-> Some(Ok(r.val)), finder |-> removed.map,
          extracted |-> <<stream>>]
    ELSE [result |-> None,
          finder |-> HashMap_insert(removed.map, key, r.err[1]),
          extracted |-> <<stream>>]

\* Finder::extract that leaves the entry in the table when the extract
\* succeeded.
Finder_extract_keep_finalized(table, key) ==
    LET removed == HashMap_remove(table, key) IN
    IF removed.value = None
    THEN [result |-> None, finder |-> removed.map, extracted |-> <<>>]
    ELSE
    LET stream == removed.value.val
        r == Stream_extract(stream) IN
    IF IsOk(r)
    THEN [result |-> Some(Ok(r.val)), finder |-> table,
          extracted |-> <<stream>>]
    ELSE [result |-> Some(Err(r.err[2])),
          finder |-> HashMap_insert(removed.map, key, r.err[1]),
          extracted |-> <<stream>>]

\* Finder::extract on a HashMap: the outcome, the table afterwards and the
\* streams whose extract was called.
Finder_extract(table, key) ==
    LET removed == HashMap_remove(table, key) IN
    IF removed.value = None
    THEN [result |-> None, finder |-> removed.map, extracted |-> <<>>]
    ELSE
    LET stream == removed.value.val
        r == Stream_extract(stream) IN
    IF IsOk(r)
    THEN [result |-> Some(Ok(r.val)), finder |-> removed.map,
          extracted |-> <<stream>>]
    ELSE [result |-> Some(Err(r.err[2])),
          finder |-> HashMap_insert(removed.map, key, r.err[1]),
          extracted |-> <<stream>>]

-----------------------------------------------------------------------------
(* src/src/server.rs *)

InvalidToken == [tag |-> "InvalidToken"]
Other(e) == [tag |-> "Other", err |-> e]

\* The conversion into ConsumeError::Auth losing which AuthError it wraps.
ConsumeError_Auth_flat(e) == [tag |-> "Auth", err |-> InvalidToken]

ConsumeError_Auth(e) == [tag |-> "Auth", err |-> e]
ConsumeError_MissingId == [tag |-> "MissingId"]
ConsumeError_Push(e) == [tag |-> "Push", err |-> e]

\* The Server implementations: mocks::RefuseToAuth, mocks::CannotAuth, mocks::Ok.
Servers == {"RefuseToAuth", "CannotAuth", "Ok"}

\* Server::auth: Ok(the finder) or Err(AuthError).
Server_auth(srv, table, token) ==
    CASE srv = "RefuseToAuth" -> Err(InvalidToken)
      [] srv = "CannotAuth" -> Err(Other(Unit))
      [] srv = "Ok" -> Ok(table)

\* Server::consume that provisions a default stream for an unknown id.
Server_consume_or_insert(srv, table, msg) ==
    LET a == Server_auth(srv, table, msg.header.token) IN
    IF IsErr(a)
    THEN [result |-> Err(ConsumeError_Auth(a.err)), finder |-> table,
          calls |-> <<>>]
    ELSE
    LET found == HashMap_get_mut(a.val, msg.header.id)
        stream == IF found = None THEN Stream("Ok", msg.header.id) ELSE found.val
        lookup == [call |-> "get_mut", key |-> msg.header.id]
        p == Stream_push(stream, msg.header.timestamp, msg.payload)
        push == [call |-> "push", key |-> msg.header.id,
                 timestamp |-> msg.header.timestamp, payload |-> msg.payload] IN
    [result |-> IF IsOk(p.result) THEN Ok(Unit)
                ELSE Err(ConsumeError_Push(p.result.err)),
     finder |-> HashMap_insert(table, msg.header.id, p.stream),
     calls |-> <<lookup, push>>]

\* Server::consume that drops the outcome of the push.
Server_consume_swallow(srv, table, msg) ==
    LET a == Server_auth(srv, table, msg.header.token) IN
    IF IsErr(a)
    THEN [result |-> Err(ConsumeError_Auth(a.err)), finder |-> table,
          calls |-> <<>>]
    ELSE
    LET found == HashMap_get_mut(a.val, msg.header.id)
        lookup == [call |-> "get_mut", key |-> msg.header.id] IN
    IF found = None
    THEN [result |-> Err(ConsumeError_MissingId), finder |-> table,
          calls |-> <<lookup>>]
    ELSE
    LET p == Stream_push(found.val, msg.header.timestamp, msg.payload)
        push == [call |-> "push", key |-> msg.header.id,
                 timestamp |-> msg.header.timestamp, payload |-> msg.payload] IN
    [result |-> Ok(Unit),
     finder |-> [table EXCEPT ![msg.header.id] = p.stream],
     calls |-> <<lookup, push>>]

\* Server::consume that pushes the token bytes in place of the payload.
Server_consume_push_token(srv, table, msg) ==
    LET a == Server_auth(srv, table, msg.header.token) IN
    IF IsErr(a)
    THEN [result |-> Err(ConsumeError_Auth(a.err)), finder |-> table,
          calls |-> <<>>]
    ELSE
    LET found == HashMap_get_mut(a.val, msg.header.id)
        lookup == [call |-> "get_mut", key |-> msg.header.id] IN
    IF found = None
    THEN [result |-> Err(ConsumeError_MissingId), finder |-> table,
          calls |-> <<lookup>>]
    ELSE
    LET p == Stream_push(found.val, msg.header.timestamp, msg.header.token)
        push == [call |-> "push", key |-> msg.header.id,
                 timestamp |-> msg.header.timestamp,
                 payload |-> msg.header.token] IN
    [result |-> IF IsOk(p.result) THEN Ok(Unit)
                ELSE Err(ConsumeError_Push(p.result.err)),
     finder |-> [table EXCEPT ![msg.header.id] = p.stream],
     calls |-> <<lookup, push>>]

\* Server::consume that looks the stream up and pushes before it asks auth.
Server_consume_push_first(srv, table, msg) ==
    LET a == Server_auth(srv, table, msg.header.token)
        found == HashMap_get_mut(table, msg.header.id)
        lookup == [call |-> "get_mut", key |-> msg.header.id] IN
    IF found = None
    THEN [result |-> IF IsErr(a) THEN Err(ConsumeError_Auth(a.err))
                     ELSE Err(ConsumeError_MissingId),
          finder |-> table, calls |-> <<lookup>>]
    ELSE
    LET p == Stream_push(found.val, msg.header.timestamp, msg.payload)
        push == [call |-> "push", key |-> msg.header.id,
                 timestamp |-> msg.header.timestamp, payload |-> msg.payload] IN
    [result |-> IF IsErr(a) THEN Err(ConsumeError_Auth(a.err))
                ELSE IF IsOk(p.result) THEN Ok(Unit)
                ELSE Err(ConsumeError_Push(p.result.err)),
     finder |-> [table EXCEPT ![msg.header.id] = p.stream],
     calls |-> <<lookup, push>>]

\* Server::consume: the outcome, the finder afterwards and the calls made on
\* the finder and its streams.
Server_consume(srv, table, msg) ==
    LET a == Server_auth(srv, table, msg.header.token) IN
    IF IsErr(a)
    THEN [result |-> Err(ConsumeError_Auth(a.err)), finder |-> table,
          calls |-> <<>>]
    ELSE
    LET found == HashMap_get_mut(a.val, msg.header.id)
        lookup == [call |-> "get_mut", key |-> msg.header.id] IN
    IF found = None
    THEN [result |-> Err(ConsumeError_MissingId), finder |-> table,
          calls |-> <<lookup>>]
    ELSE
    LET p == Stream_push(found.val, msg.header.timestamp, msg.payload)
        push == [call |-> "push", key |-> msg.header.id,
                 timestamp |-> msg.header.timestamp, payload |-> msg.payload] IN
    [result |-> IF IsOk(p.result) THEN Ok(Unit)
                ELSE Err(ConsumeError_Push(p.result.err)),
     finder |-> [table EXCEPT ![msg.header.id] = p.stream],
     calls |-> <<lookup, push>>]

-----------------------------------------------------------------------------
(* The server and its routing table. *)

Keys == {<<>>, <<1>>, <<1, 127>>}
Tokens == {<<>>, <<127>>}
PushMillis == {0, 1000}
PushPayloads == {<<>>, <<171>>}
StreamKinds == {"Ok", "Broken"}

\* Every table over a subset of Keys, each stream provisioned empty.
Tables ==
    UNION {{[k \in D |-> Stream(kinds[k], k)] : kinds \in [D -> StreamKinds]} :
        D \in SUBSET Keys}

Messages ==
    {Message(Header(t, i, Duration_from_millis(m)), p) :
        t \in Tokens, i \in Keys, m \in PushMillis, p \in PushPayloads}

RECURSIVE SumPushed(_, _)
SumPushed(table, keys) ==
    IF keys = {} THEN 0
    ELSE LET k == CHOOSE x \in keys : TRUE IN
         Len(table[k].pushed) + SumPushed(table, keys \ {k})

TotalPushed(table) == SumPushed(table, DOMAIN table)

CodecIdle ==
    /\ origin = [family |-> "none", bytes |-> <<>>]
    /\ input = <<>>
    /\ headerResult = NotRun
    /\ messageResult = NotRun

\* The ledger at the start: every stream of the table is provisioned, none
\* is finalized.
Ledger(table) == [provisioned |-> DOMAIN table, finalized |-> <<>>]

\* The ledger after a call of Finder.extract returned `result` for `key`: a
\* successful extract adds the key and the stream that was finalized.
Ledger_extracted(led, key, result) ==
    IF result.tag = "Some" /\ IsOk(result.val)
    THEN [led EXCEPT !.finalized =
                       Append(@, [key |-> key, sid |-> result.val.val.finalized])]
    ELSE led

Init ==
    /\ server \in Servers
    /\ finder \in Tables
    /\ lastCall = NotRun
    /\ ledger = Ledger(finder)
    /\ inflight = NotRun
    /\ CodecIdle
    /\ SessionIdle

Consume(msg) ==
    /\ TotalPushed(finder) < MaxPushes
    /\ LET r == Server_consume(server, finder, msg) IN
         /\ finder' = r.finder
         /\ lastCall' = [op |-> "consume", msg |-> msg, before |-> finder,
                          result |-> r.result, calls |-> r.calls]
    /\ UNCHANGED <<server, codecVars, sessionVars, sharedVars>>

Extract(key) ==
    /\ LET r == Finder_extract(finder, key) IN
         /\ finder' = r.finder
         /\ lastCall' = [op |-> "extract", key |-> key, before |-> finder,
                          result |-> r.result, extracted |-> r.extracted]
         /\ ledger' = Ledger_extracted(ledger, key, r.result)
    /\ UNCHANGED <<server, inflight, codecVars, sessionVars>>

Next ==
    \/ \E msg \in Messages : Consume(msg)
    \/ \E key \in Keys : Extract(key)

Spec == Init /\ [][Next]_vars

-----------------------------------------------------------------------------
(* One Finder used by several threads.  Finder::extract takes two steps on  *)
(* the table, the remove and, after Stream::extract, the reinsert of a      *)
(* stream whose extract failed; `inflight` holds, for each thread, the      *)
(* stream it has removed and not yet finalized or reinserted.  With         *)
(* `locked` a call runs from its first step to its last before any other    *)
(* call starts, as the exclusive borrow `&mut self` has it; without it      *)
(* other calls run between the two steps.                                   *)

Threads == {1, 2}

\* The keys whose streams threads other than t have removed and still hold.
HeldKeys(t) ==
    {inflight.held[u].val.key :
        u \in {x \in Threads \ {t} : inflight.held[x] # None}}

\* Thread t may start a call: it is not inside one, and under the lock no
\* other thread is.
MayStart(t) ==
    /\ inflight.held[t] = None
    /\ inflight.locked => \A u \in Threads : inflight.held[u] = None

\* The calls that saw a key absent so far while another thread held its
\* stream.
Missed(op, key, absent, t) ==
    IF absent /\ key \in HeldKeys(t)
    THEN inflight.missed \cup {[op |-> op, key |-> key]}
    ELSE inflight.missed

\* One message to each key.
SharedMessages ==
    {Message(Header(<<127>>, i, Duration_from_millis(1000)), <<171>>) :
        i \in Keys}

InitShared ==
    /\ server \in Servers
    /\ finder \in Tables
    /\ lastCall = NotRun
    /\ ledger = Ledger(finder)
    /\ inflight \in {[locked |-> l, held |-> [t \in Threads |-> None],
                       missed |-> {}] : l \in BOOLEAN}
    /\ CodecIdle
    /\ SessionIdle

\* Server::consume by thread t, between the steps of the calls in flight.
SharedConsume(t, msg) ==
    /\ MayStart(t)
    /\ TotalPushed(finder) < MaxPushes
    /\ LET r == Server_consume(server, finder, msg) IN
         /\ finder' = r.finder
         /\ lastCall' = [op |-> "consume", thread |-> t,
                          key |-> msg.header.id,
                          token |-> msg.header.token, before |-> finder,
                          during |-> HeldKeys(t), result |-> r.result]
         /\ inflight' = [inflight EXCEPT
                           !.missed = Missed("consume", msg.header.id,
                                             r.result = Err(ConsumeError_MissingId),
                                             t)]
    /\ UNCHANGED <<server, ledger, codecVars, sessionVars>>

\* The first step of Finder::extract by thread t: the remove.  Without an
\* entry the call returns None at once.
ExtractRemove(t, key) ==
    /\ MayStart(t)
    /\ LET removed == HashMap_remove(finder, key) IN
         /\ finder' = removed.map
         /\ IF removed.value = None
            THEN /\ lastCall' = [op |-> "extract", thread |-> t, key |-> key,
                                 before |-> finder, during |-> HeldKeys(t),
                                 result |-> None]
                 /\ inflight' = [inflight EXCEPT
                                   !.missed = Missed("extract", key, TRUE, t)]
            ELSE /\ lastCall' = [op |-> "remove", thread |-> t, key |-> key,
                                 before |-> finder, during |-> HeldKeys(t)]
                 /\ inflight' = [inflight EXCEPT
                                   !.held[t] = Some([key |-> key,
                                                     stream |-> removed.value.val,
                                                     before |-> finder])]
    /\ UNCHANGED <<server, ledger, codecVars, sessionVars>>

\* The rest of Finder::extract by thread t: Stream::extract of the stream
\* removed, and the reinsert when it fails.
ExtractFinish(t) ==
    /\ inflight.held[t] # None
    /\ LET key == inflight.held[t].val.key
           stream == inflight.held[t].val.stream
           r == Stream_extract(stream)
           result == IF IsOk(r) THEN Some(Ok(r.val)) ELSE Some(Err(r.err[2])) IN
         /\ finder' = IF IsOk(r) THEN finder
                       ELSE HashMap_insert(finder, key, r.err[1])
         /\ lastCall' = [op |-> "extract", thread |-> t, key |-> key,
                          before |-> inflight.held[t].val.before,
                          during |-> HeldKeys(t), result |-> result,
                          stream |-> stream, tableBefore |-> finder]
         /\ ledger' = Ledger_extracted(ledger, key, result)
         /\ inflight' = [inflight EXCEPT !.held[t] = None]
    /\ UNCHANGED <<server, codecVars, sessionVars>>

NextShared ==
    \/ \E t \in Threads, msg \in SharedMessages : SharedConsume(t, msg)
    \/ \E t \in Threads, key \in Keys : ExtractRemove(t, key)
    \/ \E t \in Threads : ExtractFinish(t)

SpecShared == InitShared /\ [][NextShared]_vars

-----------------------------------------------------------------------------
(* src/src/session.rs *)

Error_Read(e) == [tag |-> "Read", err |-> e]
Error_OneByteMessageSize == [tag |-> "OneByteMessageSize"]
Error_Truncated(found, remaining) ==
    [tag |-> "Truncated", found |-> found, remaining |-> remaining]
Error_Parse(e) == [tag |-> "Parse", err |-> e]
Error_Consume(e) == [tag |-> "Consume", err |-> e]

\* `n as u16`
as_u16(n) == n % 65536

Min(a, b) == IF a <= b THEN a ELSE b

\* A byte of the buffer's spare capacity that was never written.
Uninit == -1

\* The byte source: the bytes it still holds, the read call (counted in
\* `reads` until it is reached) that fails with an I/O error, 0 for none, and
\* the most bytes one read delivers, 0 for as many as are asked.
Reader(data, failAt, chunk) ==
    [data |-> data, reads |-> 0, failAt |-> failAt, chunk |-> chunk]

\* The bytes one read into a buffer of n bytes delivers.
Reader_count(reader, n) ==
    IF reader.chunk = 0 THEN Min(n, Len(reader.data))
    ELSE Min(Min(n, reader.chunk), Len(reader.data))

\* A read that hands out the bytes and leaves them in the source.
Reader_read_peek(reader, n) ==
    LET counted == [reader EXCEPT
                      !.reads = IF @ < reader.failAt THEN @ + 1 ELSE @] IN
    IF reader.reads + 1 = reader.failAt
    THEN [result |-> Err("io"), reader |-> counted]
    ELSE [result |-> Ok(SliceTo(reader.data, Reader_count(reader, n))),
          reader |-> counted]

\* Read::read into a buffer of n bytes: Ok(the bytes read) or Err(io error),
\* and the reader afterwards.  A read takes bytes that are there, up to n.
Reader_read(reader, n) ==
    LET counted == [reader EXCEPT
                      !.reads = IF @ < reader.failAt THEN @ + 1 ELSE @] IN
    IF reader.reads + 1 = reader.failAt
    THEN [result |-> Err("io"), reader |-> counted]
    ELSE LET k == Reader_count(reader, n) IN
         [result |-> Ok(SliceTo(reader.data, k)),
          reader |-> [counted EXCEPT !.data = SliceFrom(reader.data, k)]]

\* The read buffer, a Vec<u8>: `mem` is its allocation (its length is the
\* capacity), `len` the vector's length.
EmptyVec == [len |-> 0, mem |-> <<>>]

\* A reserve that never allocates.
Vec_reserve_none(vec, additional) == vec

\* Vec::reserve: capacity for at least `additional` more elements.
Vec_reserve(vec, additional) ==
    IF Len(vec.mem) >= vec.len + additional THEN vec
    ELSE [vec EXCEPT
            !.mem = @ \o [i \in 1..(vec.len + additional - Len(@)) |-> Uninit]]

\* Vec::set_len
Vec_set_len(vec, size) == [vec EXCEPT !.len = size]

\* A read that fills only the bytes of the buffer never written before.
Vec_write_fresh_only(vec, bytes) ==
    [vec EXCEPT !.mem = [i \in 1..Len(@) |->
                           IF i <= Len(bytes) /\ @[i] = Uninit THEN bytes[i]
                           ELSE @[i]]]

\* The vector after a read wrote `bytes` at its start.
Vec_write(vec, bytes) ==
    [vec EXCEPT !.mem = bytes \o SliceFrom(@, Len(bytes))]

\* The vector as a slice.
Vec_slice(vec) == SliceTo(vec.mem, vec.len)

\* What one call of next reports besides its item: how many bytes the prefix
\* read and the body read returned ("none": not attempted, "err": failed),
\* the size decoded, the buffer's capacity when the body read began, the
\* buffers parsed and the messages given to consume.
NoTrace ==
    [prefix |-> "none", size |-> "none", capacity |-> "none", body |-> "none",
     parsed |-> <<>>, consumed |-> <<>>, calls |-> <<>>]

\* Session::next after consume returned c for the parsed message.
Session_consumed_ignore(msg, c, filled, reader, t4) ==
    [item |-> Some(Ok(msg.header.id)),
     reader |-> reader, buffer |-> filled, finder |-> c.finder,
     trace |-> [t4 EXCEPT !.consumed = <<msg>>, !.calls = c.calls]]

\* A next that ends the sequence when consume fails.
Session_consumed_stop(msg, c, filled, reader, t4) ==
    [item |-> IF IsOk(c.result) THEN Some(Ok(msg.header.id)) ELSE None,
     reader |-> reader, buffer |-> filled, finder |-> c.finder,
     trace |-> [t4 EXCEPT !.consumed = <<msg>>, !.calls = c.calls]]

\* Session::next after consume returned c for the parsed message: the id on
\* success, Consume(c) otherwise.
Session_consumed(msg, c, filled, reader, t4) ==
    [item |-> IF IsOk(c.result) THEN Some(Ok(msg.header.id))
              ELSE Some(Err(Error_Consume(c.result.err))),
     reader |-> reader, buffer |-> filled, finder |-> c.finder,
     trace |-> [t4 EXCEPT !.consumed = <<msg>>, !.calls = c.calls]]

\* A next that ends the sequence on a body that does not parse.
Session_parsed_skip(m, filled, reader, srv, table, t4) ==
    IF ~IsOk(m.result)
    THEN [item |-> None,
          reader |-> reader, buffer |-> filled, finder |-> table,
          trace |-> t4]
    ELSE Session_consumed(m.result.val,
                          Server_consume(srv, table, m.result.val),
                          filled, reader, t4)

\* Session::next after Message::parse returned m: Parse(e) on failure,
\* otherwise the message goes to the server.
Session_parsed(m, filled, reader, srv, table, t4) ==
    IF ~IsOk(m.result)
    THEN [item |-> IF IsErr(m.result) THEN Some(Err(Error_Parse(m.result.err)))
                   ELSE Panic,
          reader |-> reader, buffer |-> filled, finder |-> table,
          trace |-> t4]
    ELSE Session_consumed(m.result.val,
                          Server_consume(srv, table, m.result.val),
                          filled, reader, t4)

\* Session::next once the body was read completely: parse the buffer and
\* give the message to the server.
Session_handle_body(filled, reader, srv, table, t3) ==
    Session_parsed(Message_parse("Bytes", Vec_slice(filled)),
                   filled, reader, srv, table,
                   [t3 EXCEPT !.parsed = <<Vec_slice(filled)>>])

\* A next that reports the whole size as remaining.
Session_read_body_remaining_size(bytes, buffer, reader, srv, table, t1) ==
    LET size == read_be(bytes, 2)
        additional == size - buffer.len
        reserved == IF additional >= 0
                    THEN Vec_reserve(buffer, additional)
                    ELSE buffer
        sized == Vec_set_len(reserved, size)
        r2 == Reader_read(reader, size)
        t2 == [t1 EXCEPT !.size = size, !.capacity = Len(sized.mem)] IN
    IF IsErr(r2.result)
    THEN [item |-> Some(Err(Error_Read(r2.result.err))),
          reader |-> r2.reader, buffer |-> sized, finder |-> table,
          trace |-> [t2 EXCEPT !.body = "err"]]
    ELSE
    LET found == Len(r2.result.val)
        filled == Vec_write(sized, r2.result.val)
        t3 == [t2 EXCEPT !.body = found] IN
    IF found < size
    THEN [item |-> Some(Err(Error_Truncated(as_u16(found), as_u16(size)))),
          reader |-> r2.reader, buffer |-> filled, finder |-> table,
          trace |-> t3]
    ELSE Session_handle_body(filled, r2.reader, srv, table, t3)

\* A next that takes a failed body read for a read of no bytes.
Session_read_body_ignore_err(bytes, buffer, reader, srv, table, t1) ==
    LET size == read_be(bytes, 2)
        additional == size - buffer.len
        reserved == IF additional >= 0
                    THEN Vec_reserve(buffer, additional)
                    ELSE buffer
        sized == Vec_set_len(reserved, size)
        r2 == Reader_read(reader, size)
        t2 == [t1 EXCEPT !.size = size, !.capacity = Len(sized.mem)]
        read == IF IsErr(r2.result) THEN <<>> ELSE r2.result.val
        found == Len(read)
        filled == Vec_write(sized, read)
        t3 == [t2 EXCEPT !.body = found] IN
    IF found < size
    THEN [item |-> Some(Err(Error_Truncated(as_u16(found), as_u16(size - found)))),
          reader |-> r2.reader, buffer |-> filled, finder |-> table,
          trace |-> t3]
    ELSE Session_handle_body(filled, r2.reader, srv, table, t3)

\* Session::next once the prefix read returned both bytes: size the buffer
\* and read the body into it.
Session_read_body(bytes, buffer, reader, srv, table, t1) ==
    LET size == read_be(bytes, 2)
        additional == size - buffer.len
        reserved == IF additional >= 0
                    THEN Vec_reserve(buffer, additional)
                    ELSE buffer
        sized == Vec_set_len(reserved, size)
        r2 == Reader_read(reader, size)
        t2 == [t1 EXCEPT !.size = size, !.capacity = Len(sized.mem)] IN
    IF IsErr(r2.result)
    THEN [item |-> Some(Err(Error_Read(r2.result.err))),
          reader |-> r2.reader, buffer |-> sized, finder |-> table,
          trace |-> [t2 EXCEPT !.body = "err"]]
    ELSE
    LET found == Len(r2.result.val)
        filled == Vec_write(sized, r2.result.val)
        t3 == [t2 EXCEPT !.body = found] IN
    IF found < size
    THEN [item |-> Some(Err(Error_Truncated(as_u16(found), as_u16(size - found)))),
          reader |-> r2.reader, buffer |-> filled, finder |-> table,
          trace |-> t3]
    ELSE Session_handle_body(filled, r2.reader, srv, table, t3)

\* A next that takes the end of the source for a one-byte prefix.
Session_next_bytes_no_end(sess, srv, table) ==
    LET r1 == Reader_read(sess.reader, 2)
        same == [reader |-> r1.reader, buffer |-> sess.buffer, finder |-> table] IN
    IF IsErr(r1.result)
    THEN [item |-> Some(Err(Error_Read(r1.result.err))),
          trace |-> [NoTrace EXCEPT !.prefix = "err"]] @@ same
    ELSE
    LET bytes == r1.result.val
        n == Len(bytes)
        t1 == [NoTrace EXCEPT !.prefix = n] IN
    IF n <= 1
    THEN [item |-> Some(Err(Error_OneByteMessageSize)), trace |-> t1] @@ same
    ELSE Session_read_body(bytes, sess.buffer, r1.reader, srv, table, t1)

\* Session::next over a byte source: the item, the reader, buffer and finder
\* afterwards, and the trace of the call.
Session_next_bytes(sess, srv, table) ==
    LET r1 == Reader_read(sess.reader, 2)
        same == [reader |-> r1.reader, buffer |-> sess.buffer, finder |-> table] IN
    IF IsErr(r1.result)
    THEN [item |-> Some(Err(Error_Read(r1.result.err))),
          trace |-> [NoTrace EXCEPT !.prefix = "err"]] @@ same
    ELSE
    LET bytes == r1.result.val
        n == Len(bytes)
        t1 == [NoTrace EXCEPT !.prefix = n] IN
    IF n = 0 THEN [item |-> None, trace |-> t1] @@ same
    ELSE IF n = 1
    THEN [item |-> Some(Err(Error_OneByteMessageSize)), trace |-> t1] @@ same
    ELSE Session_read_body(bytes, sess.buffer, r1.reader, srv, table, t1)

-----------------------------------------------------------------------------
(* The parts of the Session that the specification describes and            *)
(* session.rs does not hold: the message-sequence mode, the set of touched  *)
(* keys and ids_to_extract.                                                 *)

\* Session::next over a sequence of messages: consume the next one.
Session_next_messages(sess, srv, table) ==
    LET same == [reader |-> sess.reader, buffer |-> sess.buffer] IN
    IF sess.messages = <<>>
    THEN [item |-> None, messages |-> <<>>, finder |-> table,
          trace |-> NoTrace] @@ same
    ELSE
    [messages |-> Tail(sess.messages)]
        @@ Session_consumed(Head(sess.messages),
                            Server_consume(srv, table, Head(sess.messages)),
                            sess.buffer, sess.reader, NoTrace)

\* The touched keys after an item was produced: an Ok(id) records its id.
Session_record(touched, item) ==
    IF item.tag = "Some" /\ IsOk(item.val) THEN touched \cup {item.val.val}
    ELSE touched

\* The session after a call of next produced r.
Session_after(sess, r) ==
    [item |-> r.item, trace |-> r.trace, finder |-> r.finder,
     session |-> [sess EXCEPT !.reader = r.reader,
                              !.messages = r.messages,
                              !.buffer = r.buffer,
                              !.touched = Session_record(@, r.item)]]

\* One call of next in either mode: the item, the trace, the session and
\* the finder afterwards.
Session_next(sess, srv, table) ==
    Session_after(sess,
                  IF sess.mode = "bytes"
                  THEN [messages |-> sess.messages]
                           @@ Session_next_bytes(sess, srv, table)
                  ELSE Session_next_messages(sess, srv, table))

\* The calls of next that can still produce an item: each one takes bytes
\* or a message from the source, or is the one read that fails.
Session_remaining(sess) ==
    Len(sess.reader.data) + Len(sess.messages)
        + (IF sess.reader.reads < sess.reader.failAt THEN 1 ELSE 0)

\* ids_to_extract: call next until it returns None, then hand out the
\* touched keys.  `left` counts the calls that can still produce an item.
RECURSIVE Session_drain(_, _, _, _)
Session_drained(r, srv, left) ==
    IF r.item = None \/ left = 0
    THEN [ids |-> r.session.touched, session |-> r.session,
          finder |-> r.finder, ended |-> r.item = None]
    ELSE Session_drain(r.session, srv, r.finder, left - 1)

Session_drain(sess, srv, table, left) ==
    Session_drained(Session_next(sess, srv, table), srv, left)

Session_ids_to_extract(sess, srv, table) ==
    Session_drain(sess, srv, table, Session_remaining(sess))

\* A frame of the wire format: size:u32 body:u8[size].
WireFrame(body) == to_bytes(as_u32(Len(body)), 4) \o body

-----------------------------------------------------------------------------
(* The session over its sources. *)

\* A frame as session.rs reads it: a 2-byte size, then the body.
CodeFrame(body) == to_bytes(as_u16(Len(body)), 2) \o body

SessionIds == {<<1>>, <<1, 127>>}
SessionPayloads == {<<171>>}
SessionPackets ==
    {[token |-> <<127>>, id |-> i, millis |-> 1000, payload |-> p] :
        i \in SessionIds, p \in SessionPayloads}

PacketBody(p) == encode(p.token, p.id, p.millis, p.payload)
PacketMessage(p) ==
    Message(Header(p.token, p.id, Duration_from_millis(p.millis)), p.payload)

PacketSeqs == UNION {[1..k -> SessionPackets] : k \in 1..MaxFrames}

RECURSIVE Concat(_)
Concat(seqs) == IF seqs = <<>> THEN <<>> ELSE Head(seqs) \o Concat(Tail(seqs))

\* Sources of complete frames, of one frame cut short, of one frame whose
\* body is a cut header, of a few raw bytes, and of one wire-format frame.
FrameSources ==
    {[family |-> "frames", packets |-> ps,
      data |-> Concat([n \in 1..Len(ps) |-> CodeFrame(PacketBody(ps[n]))])] :
        ps \in PacketSeqs}

\* A body that ends inside the id size: the token and two bytes more.
BadBody(p) == SliceTo(PacketBody(p), 4 + Len(p.token) + 2)

\* The i-th frame of a source of complete frames; the frames in `bad` carry
\* a body that does not parse.
SourceFrame(ps, bad, i) ==
    CodeFrame(IF i \in bad THEN BadBody(ps[i]) ELSE PacketBody(ps[i]))

\* Sources of complete frames of which some do not parse.
MixedSources ==
    UNION {{[family |-> "mixed", packets |-> ps, bad |-> bad,
             data |-> Concat([n \in 1..Len(ps) |-> SourceFrame(ps, bad, n)])] :
               bad \in (SUBSET (1..Len(ps))) \ {{}}} :
        ps \in PacketSeqs}

CutSources ==
    UNION {{[family |-> "cut", packets |-> <<p>>, cut |-> c,
             data |-> SliceTo(CodeFrame(PacketBody(p)), c)] :
               c \in 2..(Len(PacketBody(p)) + 1)} :
        p \in SessionPackets}

BadBodySources ==
    UNION {{[family |-> "badbody", packets |-> <<p>>, cut |-> c,
             data |-> CodeFrame(SliceTo(PacketBody(p), c))] :
               c \in 0..(Len(PacketBody(p)) - Len(p.payload) - 1)} :
        p \in SessionPackets}

RawBytes == {0, 1, 2}
RawSources ==
    {[family |-> "raw", packets |-> <<>>, data |-> b] :
        b \in {r \in SeqsUpTo(RawBytes, 3) : Len(r) >= 2 => r[1] = 0}}

WireSources ==
    {[family |-> "wire", packets |-> <<p>>, data |-> WireFrame(PacketBody(p))] :
        p \in SessionPackets}

\* tests::Packet::into_bytes
Packet_into_bytes(p) ==
    LET msg == to_bytes(as_u16(Len(p.token)), 2) \o p.token
                 \o to_bytes(as_u16(Len(p.id)), 2) \o p.id
                 \o to_bytes(p.millis, 8) \o p.payload IN
    to_bytes(as_u16(Len(msg)), 2) \o msg

PacketSources ==
    {[family |-> "packet", packets |-> <<p>>, data |-> Packet_into_bytes(p)] :
        p \in SessionPackets}

\* Sources that hold one complete frame and deliver it a few bytes a read.
SlowSources ==
    {[family |-> "slow", packets |-> <<p>>, chunk |-> c,
      data |-> CodeFrame(PacketBody(p))] :
        p \in SessionPackets, c \in {1, 3}}

\* A source whose reads deliver two bytes at most: a three-byte body, read
\* short, and a one-byte body after it.
StallSources ==
    {[family |-> "stall", packets |-> <<>>, chunk |-> 2,
      data |-> <<0, 3, 1, 2, 0, 1, 2>>]}

\* Sources that begin with a frame of size 0: another frame of size 0 or a
\* complete frame follows it.
ZeroSources ==
    {[family |-> "zero", packets |-> <<>>, data |-> <<0, 0, 0, 0>>]}
        \cup {[family |-> "zero", packets |-> <<p>>,
                data |-> <<0, 0>> \o CodeFrame(PacketBody(p))] :
                 p \in SessionPackets}

ByteSources ==
    FrameSources \cup CutSources \cup BadBodySources \cup RawSources
        \cup WireSources \cup PacketSources \cup MixedSources
        \cup SlowSources \cup StallSources \cup ZeroSources

MessageSources ==
    {[family |-> "messages", packets |-> ps, data |-> <<>>] :
        ps \in PacketSeqs \cup {<<>>}}

SessionTables ==
    {<<>>,
     (<<1>> :> Stream("Ok", 1)),
     (<<1>> :> Stream("Broken", 1)),
     (<<1>> :> Stream("Ok", 1)) @@ (<<1, 127>> :> Stream("Broken", 2))}

\* Session::new
Session_new(source, failAt) ==
    [mode |-> IF source.family = "messages" THEN "messages" ELSE "bytes",
     source |-> source,
     reader |-> Reader(source.data, failAt,
                       IF source.family \in {"slow", "stall"}
                       THEN source.chunk ELSE 0),
     messages |-> IF source.family = "messages"
                  THEN [n \in 1..Len(source.packets) |->
                          PacketMessage(source.packets[n])]
                  ELSE <<>>,
     buffer |-> EmptyVec,
     touched |-> {},
     calls |-> 0]

InitSession ==
    /\ server \in Servers
    /\ finder \in SessionTables
    /\ lastCall = NotRun
    /\ \/ \E src \in ByteSources, f \in 0..MaxFailAt :
             session = Session_new(src, f)
       \/ \E src \in MessageSources : session = Session_new(src, 0)
    /\ lastNext = NotRun
    /\ lastIds = NotRun
    /\ CodecIdle
    /\ SharedIdle

\* The state after a call of next returned r.
SessionNextTo(r) ==
    /\ session' = [r.session EXCEPT !.calls = @ + 1]
    /\ finder' = r.finder
    /\ lastNext' = [call |-> session.calls + 1, item |-> r.item,
                     trace |-> r.trace, before |-> session,
                     finderBefore |-> finder,
                     touchedAfter |-> r.session.touched,
                     dataAfter |-> r.session.reader.data,
                     drained |-> lastIds # NotRun,
                     prev |-> IF lastNext = NotRun THEN NotRun
                              ELSE lastNext.item,
                     finderAfter |-> r.finder]

SessionNext ==
    /\ session.calls < MaxCalls
    /\ SessionNextTo(Session_next(session, server, finder))
    /\ UNCHANGED <<server, lastCall, lastIds, codecVars, sharedVars>>

\* The state after ids_to_extract returned r.
IdsToExtractTo(r) ==
    /\ session' = [r.session EXCEPT !.calls = session.calls]
    /\ finder' = r.finder
    /\ lastIds' = [ids |-> r.ids, ended |-> r.ended,
                    nexts |-> session.calls, again |-> lastIds # NotRun,
                    source |-> session.source,
                    failAt |-> session.reader.failAt,
                    finderBefore |-> finder]

IdsToExtract ==
    /\ IdsToExtractTo(Session_ids_to_extract(session, server, finder))
    /\ UNCHANGED <<server, lastCall, lastNext, codecVars, sharedVars>>

NextSession ==
    \/ SessionNext
    \/ IdsToExtract

SpecSession == InitSession /\ [][NextSession]_vars

\* The caller keeps calling next: an Iterator is driven by its consumer, and
\* a call of next, once made, returns.  This is WF_vars(SessionNext) with the
\* condition under which SessionNext is enabled written out.
SessionNextFair ==
    \/ []<><<SessionNext>>_vars
    \/ []<>(session.calls >= MaxCalls)

SpecSessionLive == SpecSession /\ SessionNextFair

-----------------------------------------------------------------------------
(* Claims about the header and message codec, checked under SpecCodec. *)

HeaderRan == headerResult # NotRun
MessageRan == messageResult # NotRun

\* A duration of exactly ms milliseconds.
IsMillis(d, ms) ==
    /\ d.nanos \in 0..999999999
    /\ d.nanos % 1000000 = 0
    /\ d.secs * 1000 + d.nanos \div 1000000 = ms

\* C1: round-trip law.  Parsing the encoding of (token, id, millis, payload)
\* gives back that token, id and timestamp with exactly the payload as the
\* remainder; Message::parse with the byte-slice decoder gives the same header
\* with that payload, and never a PayloadError.
C1_RoundTrip ==
    origin.family = "packet" =>
        /\ HeaderRan =>
              /\ IsOk(headerResult)
              /\ headerResult.val[1].token = origin.token
              /\ headerResult.val[1].id = origin.id
              /\ IsMillis(headerResult.val[1].timestamp, origin.millis)
              /\ headerResult.val[2] = origin.payload
        /\ (MessageRan /\ messageResult.decoder = "Bytes") =>
              /\ IsOk(messageResult.result)
              /\ messageResult.result.val.header.token = origin.token
              /\ messageResult.result.val.header.id = origin.id
              /\ IsMillis(messageResult.result.val.header.timestamp, origin.millis)
              /\ messageResult.result.val.payload = origin.payload

\* A packet with an empty token, a two-byte id and a payload, parsed both ways.
C1_Witness ==
    /\ origin.family = "packet"
    /\ origin.token = <<>>
    /\ origin.id = <<1, 127>>
    /\ origin.millis = 1000
    /\ origin.payload = <<127, 1>>
    /\ HeaderRan /\ IsOk(headerResult)
    /\ MessageRan /\ messageResult.decoder = "Bytes" /\ IsOk(messageResult.result)

\* C2: every buffer of 0, 1, 2 or 3 bytes fails with
\* HeaderError{remaining: its length, part: TokenSize}.
C2_ShortBuffer ==
    (HeaderRan /\ Len(input) < 4) =>
        headerResult = Err(HeaderError(Len(input), TokenSize))

C2_Witness ==
    /\ origin.family = "raw"
    /\ input = <<127, 0, 1>>
    /\ headerResult = Err(HeaderError(3, TokenSize))

\* C3: a size field declaring L >= 1 followed by k < L bytes fails with
\* HeaderError{remaining: k, part: Token(L)}.
C3_PartialToken ==
    (HeaderRan /\ origin.family = "partial_token") =>
        headerResult = Err(HeaderError(Len(origin.body), Token(origin.declared)))

C3_Witness ==
    /\ origin.family = "partial_token"
    /\ origin.declared = 3
    /\ Len(origin.body) = 2
    /\ headerResult = Err(HeaderError(2, Token(3)))

\* The first field, in wire order, that a c-byte prefix of the header of
\* (token t, id i) does not hold in full, with the bytes left before it.
FirstMissing(t, i, c) ==
    IF c < 4 THEN HeaderError(c, TokenSize)
    ELSE IF c - 4 < Len(t) THEN HeaderError(c - 4, Token(Len(t)))
    ELSE IF c - 4 - Len(t) < 4 THEN HeaderError(c - 4 - Len(t), IdSize)
    ELSE IF c - 8 - Len(t) < Len(i) THEN HeaderError(c - 8 - Len(t), Id(Len(i)))
    ELSE HeaderError(c - 8 - Len(t) - Len(i), Timestamp)

\* C4: fields are checked in wire order and the parse fails at the first one
\* that does not fit, `remaining` counting only the bytes left before it:
\* k <= 3 bytes after a complete token give IdSize with remaining k; k < L
\* bytes after an id size declaring L give Id(L) with remaining k; k <= 7
\* bytes after a complete id give Timestamp with remaining k.
C4_WireOrder ==
    HeaderRan =>
        /\ origin.family = "id_size_cut" =>
              headerResult = Err(HeaderError(Len(origin.tail), IdSize))
        /\ origin.family = "partial_id" =>
              headerResult =
                  Err(HeaderError(Len(origin.body), Id(origin.declared)))
        /\ origin.family = "timestamp_cut" =>
              headerResult = Err(HeaderError(Len(origin.tail), Timestamp))
        /\ origin.family = "prefix" =>
              headerResult =
                  Err(FirstMissing(origin.token, origin.id, origin.cut))

\* A full token and a full id followed by seven timestamp bytes.
C4_Witness ==
    /\ origin.family = "timestamp_cut"
    /\ Len(origin.token) = 2
    /\ Len(origin.id) = 1
    /\ Len(origin.tail) = 7
    /\ headerResult = Err(HeaderError(7, Timestamp))

\* C5: on a strict prefix of a header region Message::parse returns
\* Err(HeaderError(_)) without calling the payload decoder; on a complete
\* header whose payload decoder fails it returns Err(PayloadError(_)).
C5_HeaderVsPayload ==
    MessageRan =>
        /\ origin.family = "prefix" =>
              /\ IsErr(messageResult.result)
              /\ messageResult.result.err.tag = "HeaderError"
              /\ messageResult.decoded = <<>>
        /\ (origin.family = "packet" /\ messageResult.decoder = "Failing") =>
              /\ IsErr(messageResult.result)
              /\ messageResult.result.err.tag = "PayloadError"

\* A header cut inside the id, given to the decoder that always fails.
C5_Witness ==
    /\ origin.family = "prefix"
    /\ Len(origin.token) = 1
    /\ Len(origin.id) = 2
    /\ origin.cut = 10
    /\ MessageRan
    /\ messageResult.decoder = "Failing"
    /\ messageResult.result = Err(Error_HeaderError(HeaderError(1, Id(2))))

\* The 2^32-byte blocks that follow `input` in the buffer given to the
\* parser: the buffer holds InputBlocks * 2^32 + Len(input) bytes.
InputBlocks == IF origin.family = "long" THEN origin.blocks ELSE 0

\* The token size and the id size the input declares.
DeclaredToken == read_be(input, 4)
DeclaredId == read_be(SliceFrom(input, 4 + DeclaredToken), 4)

\* The total width of the fields that precede `part` in wire order.
ConsumedBefore(part) ==
    CASE part.tag = "TokenSize" -> 0
      [] part.tag = "Token" -> 4
      [] part.tag = "IdSize" -> 4 + DeclaredToken
      [] part.tag = "Id" -> 8 + DeclaredToken
      [] part.tag = "Timestamp" -> 8 + DeclaredToken + DeclaredId

\* C25: exact deficit accounting for buffers of every length.  Header::parse
\* never indexes out of bounds, and every HeaderError reports as `remaining`
\* the length of the buffer minus the width of the fields consumed before
\* the failing one: the buffer holds no bytes beyond the 32-bit count, and
\* `remaining` is the rest of that count.
C25_ExactDeficit ==
    HeaderRan =>
        /\ headerResult # Panic
        /\ IsErr(headerResult) =>
              /\ InputBlocks = 0
              /\ headerResult.err.remaining =
                     Len(input) - ConsumedBefore(headerResult.err.part)

\* The same accounting over the buffers whose length fits the 32-bit count.
ExactDeficitWithin32Bits ==
    (HeaderRan /\ InputBlocks = 0) =>
        /\ headerResult # Panic
        /\ IsErr(headerResult) =>
              headerResult.err.remaining =
                  Len(input) - ConsumedBefore(headerResult.err.part)

-----------------------------------------------------------------------------
(* Claims about Finder::extract and Server::consume, checked under Spec. *)

LastIs(op) == lastCall # NotRun /\ lastCall.op = op

\* The last call was Finder.extract on a key that was in the table.
ExtractedPresent == LastIs("extract") /\ lastCall.key \in DOMAIN lastCall.before

\* C6: a failed finalize is a no-op on the table.  When the stream under a
\* present key fails to extract, Finder.extract returns Some(Err(e)) with the
\* stream's error and the table afterwards equals the table before: the same
\* keys, the key mapped to the stream handed back, the other entries untouched.
C6_FailedExtractNoOp ==
    (ExtractedPresent /\ IsErr(Stream_extract(lastCall.before[lastCall.key]))) =>
        /\ lastCall.result = Some(Err(Unit))
        /\ DOMAIN finder = DOMAIN lastCall.before
        /\ finder[lastCall.key] = lastCall.before[lastCall.key]
        /\ \A k \in DOMAIN lastCall.before : finder[k] = lastCall.before[k]

\* A failed extract on <<1>> in a full table whose other streams hold a push.
C6_Witness ==
    /\ ExtractedPresent
    /\ lastCall.key = <<1>>
    /\ lastCall.result = Some(Err(Unit))
    /\ DOMAIN lastCall.before = Keys
    /\ lastCall.before[<<1>>].kind = "Broken"
    /\ Len(lastCall.before[<<>>].pushed) = 1

\* C7: a successful finalize removes the entry.  When the stream under a
\* present key extracts to v, Finder.extract returns Some(Ok(v)), the key is
\* absent afterwards and every other entry is unchanged.
C7_SuccessfulExtractRemoves ==
    (ExtractedPresent /\ IsOk(Stream_extract(lastCall.before[lastCall.key]))) =>
        /\ lastCall.result =
               Some(Ok([finalized |-> lastCall.before[lastCall.key].sid,
                        pushed |-> lastCall.before[lastCall.key].pushed]))
        /\ lastCall.key \notin DOMAIN finder
        /\ DOMAIN finder = DOMAIN lastCall.before \ {lastCall.key}
        /\ \A k \in DOMAIN finder : finder[k] = lastCall.before[k]

\* A successful extract of a stream that holds two pushes, beside another entry.
C7_Witness ==
    /\ ExtractedPresent
    /\ lastCall.key = <<1, 127>>
    /\ lastCall.result.tag = "Some"
    /\ IsOk(lastCall.result.val)
    /\ Len(lastCall.result.val.val.pushed) = 2
    /\ DOMAIN finder = {<<1>>}

\* C8: Finder.extract returns None exactly when the key is not in the table,
\* and then the table is unchanged and no stream's extract is called.
C8_NoneIffAbsent ==
    LastIs("extract") =>
        /\ (lastCall.result = None) <=> (lastCall.key \notin DOMAIN lastCall.before)
        /\ lastCall.result = None =>
              /\ finder = lastCall.before
              /\ lastCall.extracted = <<>>

\* An extract of the absent key <<1>> from a table of two streams.
C8_Witness ==
    /\ LastIs("extract")
    /\ lastCall.key = <<1>>
    /\ lastCall.result = None
    /\ DOMAIN finder = {<<>>, <<1, 127>>}
    /\ finder[<<>>].kind = "Broken"

\* C9: when auth fails, consume returns ConsumeError::Auth carrying the same
\* auth error (InvalidToken stays InvalidToken, Other(e) stays Other(e)), and
\* neither a finder lookup nor a push happens.
C9_AuthErrorPassedOn ==
    LastIs("consume") =>
        /\ server = "RefuseToAuth" =>
              lastCall.result = Err([tag |-> "Auth", err |-> InvalidToken])
        /\ server = "CannotAuth" =>
              lastCall.result = Err([tag |-> "Auth", err |-> Other(Unit)])
        /\ server \in {"RefuseToAuth", "CannotAuth"} =>
              /\ lastCall.calls = <<>>
              /\ finder = lastCall.before

\* CannotAuth refusing a message whose id is a key of the table.
C9_Witness ==
    /\ LastIs("consume")
    /\ server = "CannotAuth"
    /\ lastCall.msg.header.id \in DOMAIN lastCall.before
    /\ lastCall.before[lastCall.msg.header.id].kind = "Ok"
    /\ lastCall.result = Err([tag |-> "Auth", err |-> Other(Unit)])

\* C10: when the token authenticates and the id is not a key of the finder
\* auth returned, consume returns MissingId and no stream receives a push.
C10_MissingId ==
    (/\ LastIs("consume")
     /\ IsOk(Server_auth(server, lastCall.before, lastCall.msg.header.token))
     /\ lastCall.msg.header.id \notin DOMAIN lastCall.before) =>
        /\ lastCall.result = Err(ConsumeError_MissingId)
        /\ \A n \in 1..Len(lastCall.calls) : lastCall.calls[n].call # "push"
        /\ finder = lastCall.before

\* A message for the absent id <<1>> while two other streams are registered.
C10_Witness ==
    /\ LastIs("consume")
    /\ server = "Ok"
    /\ lastCall.msg.header.id = <<1>>
    /\ DOMAIN lastCall.before = {<<>>, <<1, 127>>}
    /\ lastCall.result = Err(ConsumeError_MissingId)

\* The last call was Server.consume of a message whose token authenticated
\* and whose id was a key of the finder.
ConsumedPresent ==
    /\ LastIs("consume")
    /\ IsOk(Server_auth(server, lastCall.before, lastCall.msg.header.token))
    /\ lastCall.msg.header.id \in DOMAIN lastCall.before

\* The push calls among the calls a consume made.
PushCalls(calls) == SelectSeq(calls, LAMBDA c : c.call = "push")

\* C11: when the token authenticates, the id is present and the found
\* stream's push fails with error p, consume returns ConsumeError::Push(p).
C11_PushError ==
    (/\ ConsumedPresent
     /\ IsErr(Stream_push(lastCall.before[lastCall.msg.header.id],
                           lastCall.msg.header.timestamp,
                           lastCall.msg.payload).result)) =>
        lastCall.result = Err([tag |-> "Push", err |-> Unit])

\* A push refused by the Broken stream under <<1, 127>>.
C11_Witness ==
    /\ ConsumedPresent
    /\ lastCall.msg.header.id = <<1, 127>>
    /\ lastCall.before[<<1, 127>>].kind = "Broken"
    /\ lastCall.result = Err([tag |-> "Push", err |-> Unit])

\* C12: when the token authenticates and the id is present, consume calls
\* push exactly once, on the stream stored under the message's id and on no
\* other, with (header.timestamp, payload), and returns Ok(()) when that push
\* succeeds.
C12_PushOnce ==
    ConsumedPresent =>
        LET id == lastCall.msg.header.id
            pushes == PushCalls(lastCall.calls) IN
        /\ Len(pushes) = 1
        /\ pushes[1].key = id
        /\ pushes[1].timestamp = lastCall.msg.header.timestamp
        /\ pushes[1].payload = lastCall.msg.payload
        /\ DOMAIN finder = DOMAIN lastCall.before
        /\ \A k \in DOMAIN finder \ {id} : finder[k] = lastCall.before[k]
        /\ lastCall.before[id].kind = "Ok" =>
              /\ lastCall.result = Ok(Unit)
              /\ finder[id].pushed =
                     Append(lastCall.before[id].pushed,
                            <<lastCall.msg.header.timestamp, lastCall.msg.payload>>)
        /\ lastCall.before[id].kind = "Broken" =>
              finder[id] = lastCall.before[id]

\* A second push, of (1000 ms, <<171>>), accepted by the stream under <<1>>
\* while another stream is registered.
C12_Witness ==
    /\ ConsumedPresent
    /\ lastCall.msg.header.id = <<1>>
    /\ lastCall.msg.header.token = <<127>>
    /\ lastCall.result = Ok(Unit)
    /\ <<>> \in DOMAIN finder
    /\ Len(finder[<<1>>].pushed) = 2
    /\ finder[<<1>>].pushed[2] = <<[secs |-> 1, nanos |-> 0], <<171>>>>

\* How often a key was finalized.
Finalizations(k) ==
    Len(SelectSeq(ledger.finalized, LAMBDA f : f.key = k))

\* The last call is the extract that finalized its key.
LastFinalized(k) ==
    /\ LastIs("extract")
    /\ lastCall.key = k
    /\ lastCall.result.tag = "Some"
    /\ IsOk(lastCall.result.val)

\* The key was finalized by a call before the last one.
FinalizedEarlier(k) == Finalizations(k) >= 1 /\ ~LastFinalized(k)

\* C22: streams are never lost or duplicated.  Each provisioned stream is
\* either still stored under its original key or was finalized by exactly
\* one successful extract, never both and never neither; after a key was
\* finalized, extract on it returns None and a consume that authenticates
\* returns MissingId.
C22_NoLossNoDuplication ==
    /\ DOMAIN finder \subseteq ledger.provisioned
    /\ \A n \in 1..Len(ledger.finalized) :
          /\ ledger.finalized[n].key \in ledger.provisioned
          /\ ledger.finalized[n].sid = ledger.finalized[n].key
    /\ \A k \in ledger.provisioned :
          \/ k \in DOMAIN finder /\ finder[k].sid = k /\ Finalizations(k) = 0
          \/ k \notin DOMAIN finder /\ Finalizations(k) = 1
    /\ (LastIs("extract") /\ FinalizedEarlier(lastCall.key)) =>
          lastCall.result = None
    /\ (/\ LastIs("consume")
        /\ server = "Ok"
        /\ FinalizedEarlier(lastCall.msg.header.id)) =>
          lastCall.result = Err([tag |-> "MissingId"])

\* Two streams were finalized and a third, whose extract fails, is still
\* stored; a consume for a finalized key has just returned MissingId.
C22_Witness ==
    /\ LastIs("consume")
    /\ server = "Ok"
    /\ Len(ledger.finalized) = 2
    /\ FinalizedEarlier(lastCall.msg.header.id)
    /\ lastCall.result = Err([tag |-> "MissingId"])
    /\ \E k \in DOMAIN finder : finder[k].kind = "Broken"

\* The last call was a consume that failed with Auth or MissingId.
ConsumeFailedEarly ==
    /\ LastIs("consume")
    /\ IsErr(lastCall.result)
    /\ lastCall.result.err.tag \in {"Auth", "MissingId"}

\* C23: consume never inserts or removes an entry of the Finder; when it
\* fails with Auth or MissingId no stream changes; push is attempted only
\* after auth succeeded and the lookup found the id.
C23_ConsumeFrame ==
    LastIs("consume") =>
        /\ DOMAIN finder = DOMAIN lastCall.before
        /\ ConsumeFailedEarly =>
              /\ finder = lastCall.before
              /\ PushCalls(lastCall.calls) = <<>>
        /\ server # "Ok" => lastCall.calls = <<>>
        /\ PushCalls(lastCall.calls) # <<>> =>
              /\ server = "Ok"
              /\ lastCall.msg.header.id \in DOMAIN lastCall.before
              /\ lastCall.calls[1] =
                     [call |-> "get_mut", key |-> lastCall.msg.header.id]

\* A server that refuses auth is asked to consume a message for an id whose
\* stream is registered and already holds a push.
C23_Witness ==
    /\ ConsumeFailedEarly
    /\ server = "RefuseToAuth"
    /\ lastCall.result.err.tag = "Auth"
    /\ lastCall.msg.header.id \in DOMAIN lastCall.before
    /\ lastCall.before[lastCall.msg.header.id].kind = "Ok"
    /\ finder = lastCall.before

-----------------------------------------------------------------------------
(* Claims about the session, checked under SpecSession. *)

\* The last call of next read from a byte source.
ByteCall == lastNext # NotRun /\ lastNext.before.mode = "bytes"

\* The bytes the source held when the call began.
Available == Len(lastNext.before.reader.data)

\* The bytes the prefix read delivers when it does not fail.
PrefixCount == Reader_count(lastNext.before.reader, 2)

\* The read that fails is the call's first read (the prefix) or, after a
\* prefix of two bytes, its second (the body).
PrefixReadFails ==
    /\ ByteCall
    /\ lastNext.before.reader.reads + 1 = lastNext.before.reader.failAt

BodyReadFails ==
    /\ ByteCall
    /\ PrefixCount = 2
    /\ lastNext.before.reader.reads + 2 = lastNext.before.reader.failAt

\* Both reads of the call succeed, the first with a two-byte prefix.
BodyRead ==
    /\ ByteCall
    /\ ~PrefixReadFails
    /\ ~BodyReadFails
    /\ PrefixCount = 2

\* The size the two-byte prefix declares and the body that follows it.
Declared ==
    lastNext.before.reader.data[1] * 256 + lastNext.before.reader.data[2]

\* The bytes the body read delivers when it does not fail.
BodyFound ==
    Reader_count([lastNext.before.reader EXCEPT !.data = SliceFrom(@, 2)],
                 Declared)

Body == SubSeq(lastNext.before.reader.data, 3, 2 + Declared)

BodyComplete == BodyRead /\ BodyFound = Declared

\* The call changed nothing of the server: no call reached it and the
\* finder is as it was.
ServerUntouched ==
    /\ lastNext.trace.consumed = <<>>
    /\ lastNext.trace.calls = <<>>
    /\ lastNext.finderAfter = lastNext.finderBefore

ShortPrefixError(k) ==
    CASE k = 1 -> [tag |-> "OneByteMessageSize"]
      [] k = 2 -> [tag |-> "TwoByteMessageSize"]
      [] k = 3 -> [tag |-> "ThreeByteMessageSize"]

\* C13: when the size-prefix read returns 1, 2 or 3 bytes, next yields
\* OneByteMessageSize, TwoByteMessageSize or ThreeByteMessageSize, reads no
\* body and does not call the server.
C13_ShortPrefix ==
    \A k \in 1..3 :
        (ByteCall /\ lastNext.trace.prefix = k) =>
            /\ lastNext.item = Some(Err(ShortPrefixError(k)))
            /\ lastNext.trace.body = "none"
            /\ ServerUntouched

\* C14: when the prefix declares N and the body read finds fewer than N
\* bytes, next yields Truncated{found, remaining: N - found}, and neither the
\* parser nor the server is invoked.
C14_Truncated ==
    (BodyRead /\ BodyFound < Declared) =>
        /\ lastNext.item =
               Some(Err([tag |-> "Truncated", found |-> BodyFound,
                         remaining |-> Declared - BodyFound]))
        /\ lastNext.item.val.err.found + lastNext.item.val.err.remaining = Declared
        /\ lastNext.item.val.err.remaining >= 1
        /\ lastNext.trace.parsed = <<>>
        /\ ServerUntouched

\* A frame cut one byte before its end, after some of its body was read.
C14_Witness ==
    /\ BodyRead
    /\ lastNext.before.source.family = "cut"
    /\ Declared >= 2
    /\ Available - 2 = Declared - 1
    /\ lastNext.item.tag = "Some"
    /\ IsErr(lastNext.item.val)
    /\ lastNext.item.val.err.tag = "Truncated"
    /\ lastNext.item.val.err.remaining = 1

\* C15: a prefix read of no bytes makes next return None, and the server is
\* not called.
C15_CleanEnd ==
    (ByteCall /\ ~PrefixReadFails /\ Available = 0) =>
        /\ lastNext.item = None
        /\ ServerUntouched
        /\ lastNext.touchedAfter = lastNext.before.touched

\* The source ends after a frame that was consumed.
C15_Witness ==
    /\ ByteCall
    /\ ~PrefixReadFails
    /\ Available = 0
    /\ lastNext.before.source.family = "frames"
    /\ lastNext.before.touched # {}
    /\ lastNext.item = None

\* C16: a failure of the prefix read or of the body read makes next yield
\* Read(e) for that call, with no parsing and no server call.
C16_ReadError ==
    (PrefixReadFails \/ BodyReadFails) =>
        /\ lastNext.item = Some(Err([tag |-> "Read", err |-> "io"]))
        /\ lastNext.trace.parsed = <<>>
        /\ ServerUntouched

\* The body read of a complete frame fails.
C16_Witness ==
    /\ BodyReadFails
    /\ lastNext.before.source.family = "frames"
    /\ Declared >= 1
    /\ lastNext.trace.prefix = 2
    /\ lastNext.trace.body = "err"
    /\ lastNext.item = Some(Err([tag |-> "Read", err |-> "io"]))

\* C17: when the body is read completely and does not parse, next yields
\* Parse(e) with the parser's error, and consume is not called.
C17_ParseError ==
    (BodyComplete /\ IsErr(Message_parse("Bytes", Body).result)) =>
        /\ lastNext.item =
               Some(Err([tag |-> "Parse",
                         err |-> Message_parse("Bytes", Body).result.err]))
        /\ lastNext.trace.parsed = <<Body>>
        /\ ServerUntouched

\* A complete frame whose body ends inside the timestamp.
C17_Witness ==
    /\ BodyComplete
    /\ lastNext.before.source.family = "badbody"
    /\ lastNext.item.tag = "Some"
    /\ IsErr(lastNext.item.val)
    /\ lastNext.item.val.err.tag = "Parse"
    /\ lastNext.item.val.err.err.tag = "HeaderError"
    /\ lastNext.item.val.err.err.err.part = Timestamp
    /\ lastNext.item.val.err.err.err.remaining >= 1

\* The body is complete and parses.
BodyParses == BodyComplete /\ IsOk(Message_parse("Bytes", Body).result)

Parsed == Message_parse("Bytes", Body).result.val

\* C18: when the body parses and consume fails with c, next yields
\* Consume(c); the id is not yielded and not recorded as touched.
C18_ConsumeError ==
    (/\ BodyParses
     /\ IsErr(Server_consume(server, lastNext.finderBefore, Parsed).result)) =>
        /\ lastNext.item =
               Some(Err([tag |-> "Consume",
                         err |-> Server_consume(server, lastNext.finderBefore,
                                                Parsed).result.err]))
        /\ lastNext.touchedAfter = lastNext.before.touched
        /\ Parsed.header.id \notin lastNext.touchedAfter

\* The second frame's push fails after the first frame's id was recorded.
C18_Witness ==
    /\ BodyParses
    /\ lastNext.call = 2
    /\ lastNext.before.touched = {<<1>>}
    /\ Parsed.header.id = <<1, 127>>
    /\ lastNext.item =
           Some(Err([tag |-> "Consume", err |-> [tag |-> "Push", err |-> Unit]]))
    /\ lastNext.touchedAfter = {<<1>>}

\* The first call of next on a source that holds one well-formed frame, with
\* a server that authenticates and a stream under the frame's id that
\* accepts pushes.
WellFormedFrame ==
    /\ ByteCall
    /\ lastNext.call = 1
    /\ lastNext.before.source.family \in {"wire", "packet"}
    /\ lastNext.before.reader.failAt = 0
    /\ server = "Ok"
    /\ lastNext.before.source.packets[1].id \in DOMAIN lastNext.finderBefore
    /\ lastNext.finderBefore[lastNext.before.source.packets[1].id].kind = "Ok"

\* C19: for a well-formed frame whose token authenticates and whose id is
\* registered, next yields Some(Ok(id)), the stream under the id observes
\* exactly one push with the frame's timestamp and payload, and the id is
\* recorded as touched.
C19_EndToEnd ==
    WellFormedFrame =>
        LET p == lastNext.before.source.packets[1]
            pushes == PushCalls(lastNext.trace.calls) IN
        /\ lastNext.item = Some(Ok(p.id))
        /\ Len(pushes) = 1
        /\ pushes[1].key = p.id
        /\ pushes[1].timestamp = [secs |-> 1, nanos |-> 0]
        /\ pushes[1].payload = p.payload
        /\ lastNext.finderAfter[p.id].pushed =
               <<<<[secs |-> 1, nanos |-> 0], p.payload>>>>
        /\ p.id \in lastNext.touchedAfter

\* The session was made over a sequence of messages: given as messages, or
\* as complete frames from a source that never fails.
MessageSequence ==
    \/ lastIds.source.family = "messages"
    \/ lastIds.source.family = "frames" /\ lastIds.failAt = 0

\* The ids of the source's messages that the server accepts: it
\* authenticates, and the stream under the id is registered and takes pushes.
AcceptedIds(source, srv, table) ==
    {source.packets[n].id :
        n \in {m \in 1..Len(source.packets) :
                 /\ srv = "Ok"
                 /\ source.packets[m].id \in DOMAIN table
                 /\ table[source.packets[m].id].kind = "Ok"}}

WireCall ==
    /\ ByteCall
    /\ lastNext.call = 1
    /\ lastNext.before.source.family = "wire"
    /\ lastNext.before.reader.failAt = 0

\* The size a four-byte big-endian prefix declares.
Declared32 ==
    ((lastNext.before.reader.data[1] * 256 + lastNext.before.reader.data[2])
        * 256 + lastNext.before.reader.data[3])
        * 256 + lastNext.before.reader.data[4]

\* C21: the size prefix is 4 bytes: next decodes it as a 32-bit big-endian
\* size and, for a well-formed frame, takes exactly 4 + size bytes from the
\* source, leaving it at the first byte of the next frame.
C21_PrefixFourBytes ==
    WireCall =>
        /\ lastNext.trace.size = Declared32
        /\ Available - Len(lastNext.dataAfter) = 4 + Declared32
        /\ lastNext.dataAfter = SubSeq(lastNext.before.reader.data,
                                       5 + Declared32, Available)

\* The last call of next read from a source of complete frames that never
\* fails, and ids_to_extract had not drained it.
FrameCall ==
    /\ ByteCall
    /\ lastNext.before.source.family \in {"frames", "mixed"}
    /\ lastNext.before.reader.failAt = 0
    /\ ~lastNext.drained

\* The frames of the source, and those among them that do not parse.
FrameCount == Len(lastNext.before.source.packets)

BadFrames ==
    IF lastNext.before.source.family = "mixed"
    THEN lastNext.before.source.bad ELSE {}

\* The bytes of the frames from the i-th on.
FramesFrom(i) ==
    Concat([n \in 1..(FrameCount - i + 1) |->
              SourceFrame(lastNext.before.source.packets, BadFrames, n + i - 1)])

\* The outcome of the i-th frame taken alone: the parse error of a bad frame,
\* otherwise what the server answers for the frame's message.
FrameOutcome(i) ==
    LET id == lastNext.before.source.packets[i].id IN
    IF i \in BadFrames
    THEN Err([tag |-> "Parse",
              err |-> [tag |-> "HeaderError",
                       err |-> [remaining |-> 2, part |-> IdSize]]])
    ELSE IF server = "RefuseToAuth"
    THEN Err([tag |-> "Consume", err |-> [tag |-> "Auth", err |-> InvalidToken]])
    ELSE IF server = "CannotAuth"
    THEN Err([tag |-> "Consume", err |-> [tag |-> "Auth", err |-> Other(Unit)]])
    ELSE IF id \notin DOMAIN lastNext.finderBefore
    THEN Err([tag |-> "Consume", err |-> [tag |-> "MissingId"]])
    ELSE IF lastNext.finderBefore[id].kind = "Broken"
    THEN Err([tag |-> "Consume", err |-> [tag |-> "Push", err |-> Unit]])
    ELSE Ok(id)

\* C24: one outcome per frame, in order, with no early end.  On a source of
\* k complete frames the i-th call of next (i <= k) starts at the i-th
\* frame, yields that frame's outcome whatever the earlier frames yielded,
\* and takes exactly that frame from the source; every later call yields
\* None.
C24_OneOutcomePerFrame ==
    FrameCall =>
        /\ lastNext.call <= FrameCount =>
              /\ lastNext.before.reader.data = FramesFrom(lastNext.call)
              /\ lastNext.item = Some(FrameOutcome(lastNext.call))
              /\ lastNext.dataAfter = FramesFrom(lastNext.call + 1)
        /\ lastNext.call > FrameCount =>
              /\ lastNext.item = None
              /\ lastNext.before.reader.data = <<>>

\* The second frame is consumed after the first frame failed to parse.
C24_Witness ==
    /\ FrameCall
    /\ FrameCount = 2
    /\ BadFrames = {1}
    /\ lastNext.call = 2
    /\ lastNext.item = Some(Ok(lastNext.before.source.packets[2].id))
    /\ lastNext.dataAfter = <<>>

\* The first call of next on a source that holds one complete frame and
\* delivers it over several reads.
SlowCall ==
    /\ ByteCall
    /\ lastNext.call = 1
    /\ lastNext.before.source.family = "slow"
    /\ lastNext.before.reader.failAt = 0
    /\ ~lastNext.drained

\* The last call yielded the error `tag`.
Yielded(tag) ==
    /\ lastNext.item.tag = "Some"
    /\ IsErr(lastNext.item.val)
    /\ lastNext.item.val.err.tag = tag

\* C26: framing errors reflect the input, not the read granularity.  When
\* the source holds a complete frame and delivers it over several short
\* reads, next yields the frame's outcome; OneByteMessageSize and Truncated
\* are yielded only when the source ends inside the prefix or the body.
C26_ShortReads ==
    /\ SlowCall =>
          /\ lastNext.item = Some(FrameOutcome(1))
          /\ lastNext.dataAfter = <<>>
    /\ (ByteCall /\ Yielded("OneByteMessageSize")) => Available = 1
    /\ (ByteCall /\ Yielded("Truncated")) =>
          /\ Available >= 2
          /\ Available - 2 < Declared

\* The last call of next read from a byte source that raises no I/O error.
QuietCall == ByteCall /\ lastNext.before.reader.failAt = 0

\* A call that yields an item takes at least one byte from the source; a
\* call after one that returned None returns None and leaves the server
\* alone.
FiniteNonRestartable ==
    /\ (QuietCall /\ lastNext.item # None) =>
          /\ Len(lastNext.dataAfter) < Available
          /\ lastNext.dataAfter =
                 SliceFrom(lastNext.before.reader.data,
                           Available - Len(lastNext.dataAfter))
    /\ (QuietCall /\ lastNext.prev = None) =>
          /\ lastNext.item = None
          /\ ServerUntouched
          /\ lastNext.dataAfter = <<>>

\* The session reads a byte source that raises no I/O error, and the calls
\* of next still allowed are enough to take its bytes one a call and then
\* see its end.
EnoughCalls ==
    /\ session.mode = "bytes"
    /\ session.reader.failAt = 0
    /\ session.calls + Len(session.reader.data) + 1 <= MaxCalls

Ended == lastNext # NotRun /\ lastNext.item = None

\* C27: the session's output is finite and non-restartable.  Over a finite
\* byte source that raises no I/O error every call that yields an item takes
\* at least one byte, repeated calls of next eventually return None, and
\* after None every call returns None and makes no server call.
C27_Finite == []FiniteNonRestartable /\ (EnoughCalls ~> Ended)

\* None is returned a second time, after a frame was consumed.
C27_Witness ==
    /\ QuietCall
    /\ lastNext.prev = None
    /\ lastNext.item = None
    /\ lastNext.call = 3
    /\ lastNext.before.touched # {}

\* The prefix read of the call returned two bytes, so the buffer was sized
\* and the body read was made (it may fail).
BodyReadMade ==
    /\ ByteCall
    /\ ~PrefixReadFails
    /\ PrefixCount = 2

Capacity(vec) == Len(vec.mem)

\* C28: over any sequence of calls of next the capacity of the read buffer
\* never decreases, and when the body read begins it is at least the size
\* the prefix of the frame declares, whether that frame is larger or smaller
\* than the ones before it.
C28_CapacityGrowsOnly ==
    ByteCall =>
        /\ Capacity(session.buffer) >= Capacity(lastNext.before.buffer)
        /\ BodyReadMade =>
              /\ lastNext.trace.capacity >= Declared
              /\ lastNext.trace.capacity >= Capacity(lastNext.before.buffer)
              /\ Capacity(session.buffer) >= lastNext.trace.capacity

\* A frame smaller than the one before it: the capacity stays above its size.
C28_Witness ==
    /\ BodyReadMade
    /\ lastNext.call = 2
    /\ 0 < Declared
    /\ Declared < lastNext.before.buffer.len
    /\ lastNext.trace.capacity > Declared

\* A frame larger than the one before it: the buffer grows a second time.
SecondGrowth ==
    /\ BodyReadMade
    /\ lastNext.call = 2
    /\ 0 < lastNext.before.buffer.len
    /\ lastNext.before.buffer.len < Declared
    /\ lastNext.trace.capacity = Declared

\* The call gave a buffer to Message::parse.
ParseInvoked == ByteCall /\ lastNext.trace.parsed # <<>>

\* The bytes an earlier frame left in the buffer beyond the current frame.
Stale == SliceFrom(SliceTo(lastNext.before.buffer.mem,
                           lastNext.before.buffer.len), Declared)

\* C29: no stale bytes reach the parser.  Whenever next invokes
\* Message::parse, the buffer parsed is exactly the `size` bytes read from
\* the source for the current frame: both reads succeeded, the body read
\* returned the declared size, and nothing an earlier frame left in the
\* buffer and no byte never written is part of what is parsed.
C29_NoStaleBytes ==
    ParseInvoked =>
        /\ BodyComplete
        /\ lastNext.trace.parsed = <<Body>>
        /\ Len(lastNext.trace.parsed[1]) = Declared
        /\ \A i \in 1..Declared : lastNext.trace.parsed[1][i] # Uninit
        /\ lastNext.dataAfter = SliceFrom(lastNext.before.reader.data,
                                          2 + Declared)

\* A frame is parsed in a buffer that still holds, beyond the frame, bytes of
\* a longer frame read before it.
C29_Witness ==
    /\ ParseInvoked
    /\ lastNext.call = 2
    /\ 0 < Declared
    /\ Declared < lastNext.before.buffer.len
    /\ Stale # <<>>
    /\ \A i \in 1..Len(Stale) : Stale[i] # Uninit
    /\ IsOk(lastNext.item.val)

\* A frame is parsed after a truncated one left its bytes in the buffer.
ParsedAfterTruncated ==
    /\ ParseInvoked
    /\ lastNext.call = 2
    /\ lastNext.prev # None
    /\ lastNext.prev # NotRun
    /\ IsErr(lastNext.prev.val)
    /\ lastNext.prev.val.err.tag = "Truncated"

\* Both reads of the call succeed and the two-byte prefix declares size 0.
ZeroSizeFrame == BodyRead /\ Declared = 0

\* What next yields for an empty body: the header parser finds no byte of
\* the token size.
ZeroSizeItem ==
    Some(Err(Error_Parse(Error_HeaderError(HeaderError(0, TokenSize)))))

\* C31: a frame whose complete size prefix declares size 0 is not the end
\* of the sequence.  next returns
\* Some(Err(Parse(HeaderError{remaining: 0, part: TokenSize}))) for it, the
\* server is not called, and only the prefix is taken from the source, so
\* that the next call reads the prefix of the frame that follows.
C31_ZeroSizeFrame ==
    ZeroSizeFrame =>
        /\ lastNext.item = ZeroSizeItem
        /\ lastNext.item # None
        /\ lastNext.trace.parsed = <<<<>>>>
        /\ ServerUntouched
        /\ lastNext.dataAfter = SliceFrom(lastNext.before.reader.data, 2)

\* A frame of size 0 is read by the call that follows another frame of
\* size 0, both yielding the parse error.
C31_Witness ==
    /\ ZeroSizeFrame
    /\ lastNext.call = 2
    /\ lastNext.prev = ZeroSizeItem
    /\ lastNext.item = ZeroSizeItem
    /\ lastNext.before.reader.data = <<0, 0>>

\* After a frame of size 0 the next call reads the frame that follows and
\* yields its id.
ZeroThenBody ==
    /\ ByteCall
    /\ lastNext.call = 2
    /\ lastNext.prev = ZeroSizeItem
    /\ lastNext.before.source.family = "zero"
    /\ lastNext.item.tag = "Some"
    /\ IsOk(lastNext.item.val)

-----------------------------------------------------------------------------
(* Claims checked under SpecShared. *)

\* The last step completed a call on the shared Finder.
CallMade == lastCall # NotRun /\ lastCall.op \in {"consume", "extract"}

\* The call found no stream under its key: extract returned None, consume
\* returned MissingId.
ObservedAbsent ==
    \/ lastCall.op = "extract" /\ lastCall.result = None
    \/ lastCall.op = "consume"
         /\ lastCall.result = Err(ConsumeError_MissingId)

\* The stream provisioned under k exists and has not been finalized.
Live(k) ==
    /\ k \in ledger.provisioned
    /\ \A i \in DOMAIN ledger.finalized : ledger.finalized[i].key # k

\* The call ran between the remove and the end of another thread's extract
\* of the same key.  A consume counts when its auth succeeds.
RanBetween ==
    /\ CallMade
    /\ lastCall.key \in lastCall.during
    /\ lastCall.op = "consume" =>
          IsOk(Server_auth(server, lastCall.before, lastCall.token))

\* The extract in flight on the key of the last call is a failing one.
FailingInFlight ==
    \E u \in Threads :
        /\ inflight.held[u] # None
        /\ inflight.held[u].val.key = lastCall.key
        /\ IsErr(Stream_extract(inflight.held[u].val.stream))

\* The last step ended an extract whose Stream::extract failed.
FailedExtract ==
    /\ CallMade
    /\ lastCall.op = "extract"
    /\ lastCall.result # None
    /\ IsErr(lastCall.result.val)

\* C30: when the calls on a shared Finder run one whole call at a time, no
\* call observes a key as absent while its stream exists and has not been
\* finalized.  When a call on the same key runs between the remove and the
\* reinsert of a failing Finder::extract, it observes the key as absent
\* (extract returns None, consume returns MissingId) although the stream
\* exists, is not finalized and is reinserted when that extract ends.
C30_SerializedOrAbsent ==
    /\ (inflight.locked /\ CallMade /\ ObservedAbsent) => ~Live(lastCall.key)
    /\ inflight.locked => inflight.missed = {}
    /\ (~inflight.locked /\ RanBetween /\ FailingInFlight) =>
          /\ ObservedAbsent
          /\ Live(lastCall.key)
          /\ lastCall.key \notin DOMAIN finder
    /\ FailedExtract =>
          /\ lastCall.key \in DOMAIN finder
          /\ finder[lastCall.key] = lastCall.stream
          /\ Live(lastCall.key)

\* Without the lock an extract and a consume both found the key absent
\* during a failing extract that has now put the stream back.
C30_Witness ==
    /\ ~inflight.locked
    /\ FailedExtract
    /\ lastCall.key = <<1>>
    /\ lastCall.key \in DOMAIN finder
    /\ {[op |-> "extract", key |-> <<1>>], [op |-> "consume", key |-> <<1>>]}
          \subseteq inflight.missed

\* Under the lock a call finds absent a key whose stream was finalized.
LockedAbsent ==
    /\ inflight.locked
    /\ CallMade
    /\ ObservedAbsent
    /\ lastCall.key \in ledger.provisioned

\* Under the lock the two steps of an extract amount to Finder::extract on
\* the table the call found.
LockedExtractWhole ==
    (inflight.locked /\ CallMade /\ lastCall.op = "extract") =>
        /\ finder = Finder_extract(lastCall.before, lastCall.key).finder
        /\ lastCall.result = Finder_extract(lastCall.before, lastCall.key).result

=============================================================================
